---- MODULE Spec2Model ----
(***************************************************************************)
(* State-machine model of the conference-page post-processing core:        *)
(*   - BlockExtractor.get_relevant_blocks   (block grouping)               *)
(*   - LineInfoExtractor.process_conference (pairing + dual-store writes)  *)
(* Each component has its own specification (SpecBlocks, SpecConf); the    *)
(* variables of the component that is not running keep their initial value.*)
(***************************************************************************)
EXTENDS Integers, Sequences, FiniteSets, TLC

VARIABLES
    \* ---- BlockExtractor.get_relevant_blocks ----
    extract_type,        \* self.extract_type
    indent_diff_thresh,  \* argument
    lnum_diff_thresh,    \* argument
    scanned,             \* the prefix of relevant_lines the for-loop has consumed
    role_label,          \* local role_label (None or a Line)
    prev_labelled,       \* local prev_labelled (None or a Line)
    mapping,             \* local mapping: defaultdict(list), Line -> list of Line
    bpc,                 \* "loop" while iterating, "returned" after return mapping
    \* ---- LineInfoExtractor.process_conference ----
    driver,              \* self.driver: TRUE when a graph driver is configured
    session,             \* self.session: "None", "open" or "closed"
    conference,          \* self.conference: None or [id |-> ...]
    sql_conf_id,         \* self.sql_conf_id: <<>> until set, then <<id>>
    n4j_conf_id,         \* self.n4j_conf_id: <<>> until set, then <<id>>
    cpc,                 \* "idle", "blocks" (between blocks), "block", "done"
    blocks_started,      \* blocks of conference.blocks handed to process_block
    n_content,           \* content lines processed in this conference
    c_role_label,        \* process_block's role_label argument
    cur_idx,             \* process_block's cur_idx
    cur_line,            \* process_block's cur_line (None before the first line)
    u_person,            \* process_block's u_person (kept as left when it returns)
    u_aff,               \* process_block's u_aff
    line_parts,          \* result of the last get_line_parts_flair call
    parsed,              \* the line that call was made on (None: no call yet)
    Persons,             \* relational table: names, id = position
    Organizations,       \* relational table: [name, location], id = position
    PersonRole,          \* relational table: set of <<role_type, conf_id, person_id>>
    PersonOrganization,  \* relational table: set of <<org_id, person_id>>
    g_nodes,             \* graph store: nodes, graph id = position - 1
    g_rels,              \* graph store: relationships requested by the writer
    emitted,             \* writer calls made by the last step, in call order
    tx_calls,            \* graph transactions run by the last step, in call order
    error,               \* the exception that ended process_conference ("none": none)
    pairings,            \* process_pair calls made by the current process_block call
    \* ---- a caller that runs process_conference twice on one conference ----
    blocks,              \* <<conference.blocks>>, a sequence of [role, content],
                         \* when the conference is given whole; <<>> when its
                         \* blocks and lines are drawn as the loops reach them
    runs,                \* process_conference calls that returned
    first_run,           \* the relational tables when the first call returned
    \* ---- API.similarity ----
    name1,               \* argument: a string, as the sequence of its characters
    name2,               \* argument
    similarity_result,   \* the value returned (<<>> before the return)
    \* ---- BlockExtractor.get_relevant_lines ----
    page_ids,            \* result of the WebPages query: page ids in row order
    PageLines,           \* table PageLines in id order: rows [page_id, line]
    page_idx,            \* pages the loop has done
    all_lines,           \* all_lines
    lpc                  \* "idle", "loop" or "returned"

bvars == <<extract_type, indent_diff_thresh, lnum_diff_thresh, scanned,
           role_label, prev_labelled, mapping, bpc>>

store == <<Persons, Organizations, PersonRole, PersonOrganization, g_nodes, g_rels>>

cvars == <<driver, session, conference, sql_conf_id, n4j_conf_id, cpc,
           blocks_started, n_content, c_role_label, cur_idx, cur_line,
           u_person, u_aff, line_parts, parsed, store, emitted>>

fvars == <<tx_calls, error, pairings>>

rvars == <<blocks, runs, first_run>>

svars == <<name1, name2, similarity_result>>

lvars == <<page_ids, PageLines, page_idx, all_lines, lpc>>

outside_blocks == <<cvars, fvars, rvars, svars, lvars>>

outside_conf == <<bvars, error, rvars, svars, lvars>>

vars == <<bvars, cvars, fvars, rvars, svars, lvars>>

\* Python None; a record so that it compares with Line records
None == [none |-> TRUE]

(***************************************************************************)
(* Bounds and input domains                                                *)
(***************************************************************************)
\* longest relevant_lines list get_relevant_blocks is run on
MaxLines == 3

\* indent / line-number values and thresholds of the generic inputs
Coords == {0, 1, 2}
SmallThresholds == {1, 2}

Abs(x) == IF x < 0 THEN -x ELSE x

(***************************************************************************)
(* Line: one row of PageLines wrapped by utils.Line.  id is the row id     *)
(* (ORDER BY id: the scan position), the three label columns are kept      *)
(* apart; a Line is a dictionary key by object identity, carried by id.    *)
(***************************************************************************)
Line(id, num, indent, label, svm_prediction, dl_prediction, text) ==
    [id |-> id, num |-> num, indent |-> indent, label |-> label,
     svm_prediction |-> svm_prediction, dl_prediction |-> dl_prediction,
     text |-> text]

\* extractors.py:67 / 168-169: the label column selected by extract_type
ActiveLabel(line, etype) ==
    IF etype = "gold" THEN line.label
    ELSE IF etype = "svm_prediction" THEN line.svm_prediction
    ELSE line.dl_prediction

\* a line whose active label (for etype) is lab; the other columns differ
LineWith(id, num, indent, lab, etype, text) ==
    Line(id, num, indent,
         IF etype = "gold" THEN lab ELSE "Undefined",
         IF etype = "svm_prediction" THEN lab ELSE "Undefined",
         IF etype = "gold" \/ etype = "svm_prediction" THEN "Undefined" ELSE lab,
         text)

\* the rows get_relevant_lines can hand to the loop at scan position id
BlockLabels == {"Role-Label", "Person"}

ExampleLines(id, etype) ==
    IF id = 2 THEN {LineWith(2, 1, 5, "Person", etype, <<"t">>)}
    ELSE IF id = 3 THEN {LineWith(3, 2, 14, "Person", etype, <<"t">>)}
    ELSE {}

NextLines(id, etype) ==
    {LineWith(id, n, i, lab, etype, <<"t">>) :
        n \in Coords, i \in Coords, lab \in BlockLabels}
    \cup ExampleLines(id, etype)

ThresholdPairs == (SmallThresholds \X SmallThresholds) \cup {<<10, 10>>}

(***************************************************************************)
(* BlockExtractor.get_relevant_blocks                                      *)
(***************************************************************************)
\* variant: thresholds inclusive (<=)
within_threshold_inclusive(line, prev_line, rl_line) ==
    LET indent_thresh == Abs(line.indent - rl_line.indent) <= indent_diff_thresh
        lnum_thresh == Abs(line.num - prev_line.num) <= lnum_diff_thresh
    IN indent_thresh /\ lnum_thresh

\* variant: indent compared against the previous labelled line as well
within_threshold_chain_indent(line, prev_line, rl_line) ==
    LET indent_thresh == Abs(line.indent - prev_line.indent) < indent_diff_thresh
        lnum_thresh == Abs(line.num - prev_line.num) < lnum_diff_thresh
    IN indent_thresh /\ lnum_thresh

\* closure within_threshold: indent against the role label, line number
\* against the last labelled line
within_threshold(line, prev_line, rl_line) ==
    LET indent_thresh == Abs(line.indent - rl_line.indent) < indent_diff_thresh
        lnum_thresh == Abs(line.num - prev_line.num) < lnum_diff_thresh
    IN indent_thresh /\ lnum_thresh

\* reading d[k] on a defaultdict(list) creates the key with an empty list
DefaultGet(d, k) == IF k \in DOMAIN d THEN d ELSE d @@ (k :> <<>>)

\* variant: the accepted line is put in front of the block's list
AcceptLine_prepend(d, rl, line) ==
    LET d1 == DefaultGet(d, rl)
    IN [d1 EXCEPT ![rl] = <<line>> \o @]

\* lines 73-76: the truth test reads mapping[role_label], then append / assign
AcceptLine(d, rl, line) ==
    LET d1 == DefaultGet(d, rl)
    IN IF d1[rl] # <<>> THEN [d1 EXCEPT ![rl] = Append(@, line)]
       ELSE [d1 EXCEPT ![rl] = <<line>>]

\* variant: a Role-Label line begins an (empty) block entry at once
RoleLabelBranch_begin_block(d, line) == DefaultGet(d, line)

\* lines 68-70: a Role-Label line becomes the current label; mapping untouched
RoleLabelBranch(d, line) == d

\* text values: a text is a sequence of tokens, the empty text stands for
\* both "" and None (the code only tests texts for truth)
NoText == <<>>
Tags == {"PER", "ORG", "LOC"}
NoParts == [t \in Tags |-> NoText]

\* LineInfoExtractor.__init__ (lines 86-92) with empty stores: the state of
\* the pairing engine before process_conference is called
ConfConstructed ==
    /\ session = "None"
    /\ conference = None
    /\ sql_conf_id = <<>>
    /\ n4j_conf_id = <<>>
    /\ cpc = "idle"
    /\ blocks_started = 0
    /\ n_content = 0
    /\ c_role_label = None
    /\ cur_idx = 0
    /\ cur_line = None
    /\ u_person = None
    /\ u_aff = None
    /\ line_parts = NoParts
    /\ parsed = None
    /\ Persons = <<>>
    /\ Organizations = <<>>
    /\ PersonRole = {}
    /\ PersonOrganization = {}
    /\ g_nodes = <<>>
    /\ g_rels = {}
    /\ emitted = <<>>
    /\ tx_calls = <<>>
    /\ error = "none"
    /\ pairings = 0

\* no caller is running process_conference a second time
SingleRun ==
    /\ blocks = <<>>
    /\ runs = 0
    /\ first_run = None

\* API.similarity and get_relevant_lines are not being called
OthersIdle ==
    /\ name1 = <<>>
    /\ name2 = <<>>
    /\ similarity_result = <<>>
    /\ page_ids = <<>>
    /\ PageLines = <<>>
    /\ page_idx = 0
    /\ all_lines = <<>>
    /\ lpc = "idle"

BlocksInit ==
    /\ driver = FALSE
    /\ ConfConstructed
    /\ SingleRun
    /\ OthersIdle
    /\ extract_type \in {"gold", "dl_prediction"}
    /\ \E tp \in ThresholdPairs :
          indent_diff_thresh = tp[1] /\ lnum_diff_thresh = tp[2]
    /\ scanned = <<>>
    /\ role_label = None
    /\ prev_labelled = None
    /\ mapping = <<>>
    /\ bpc = "loop"

CanScan == bpc = "loop" /\ Len(scanned) < MaxLines

\* loop iteration on a Role-Label line (lines 68-70)
ScanRoleLabel ==
    /\ CanScan
    /\ \E line \in NextLines(Len(scanned) + 1, extract_type) :
        /\ ActiveLabel(line, extract_type) = "Role-Label"
        /\ scanned' = Append(scanned, line)
        /\ role_label' = line
        /\ prev_labelled' = line
        /\ mapping' = RoleLabelBranch(mapping, line)
    /\ UNCHANGED <<extract_type, indent_diff_thresh, lnum_diff_thresh, bpc>>
    /\ UNCHANGED outside_blocks

\* loop iteration on another line while a role label is current (lines 71-77)
ScanContent ==
    /\ CanScan
    /\ role_label # None
    /\ \E line \in NextLines(Len(scanned) + 1, extract_type) :
        /\ ActiveLabel(line, extract_type) # "Role-Label"
        /\ scanned' = Append(scanned, line)
        /\ IF within_threshold(line, prev_labelled, role_label)
           THEN /\ mapping' = AcceptLine(mapping, role_label, line)
                /\ prev_labelled' = line
           ELSE UNCHANGED <<mapping, prev_labelled>>
    /\ UNCHANGED <<extract_type, indent_diff_thresh, lnum_diff_thresh,
                   role_label, bpc>>
    /\ UNCHANGED outside_blocks

\* loop iteration on another line before any role label (lines 78-79)
ScanOrphan ==
    /\ CanScan
    /\ role_label = None
    /\ \E line \in NextLines(Len(scanned) + 1, extract_type) :
        /\ ActiveLabel(line, extract_type) # "Role-Label"
        /\ scanned' = Append(scanned, line)
    /\ UNCHANGED <<extract_type, indent_diff_thresh, lnum_diff_thresh,
                   role_label, prev_labelled, mapping, bpc>>
    /\ UNCHANGED outside_blocks

\* relevant_lines exhausted: return mapping (line 81)
ReturnMapping ==
    /\ bpc = "loop"
    /\ bpc' = "returned"
    /\ UNCHANGED <<extract_type, indent_diff_thresh, lnum_diff_thresh, scanned,
                   role_label, prev_labelled, mapping>>
    /\ UNCHANGED outside_blocks

BlocksNext == ScanRoleLabel \/ ScanContent \/ ScanOrphan \/ ReturnMapping

SpecBlocks == BlocksInit /\ [][BlocksNext]_vars

(***************************************************************************)
(* Vocabulary of the block-grouping claims, over the scanned input and the *)
(* mapping only (not over the loop's locals)                               *)
(***************************************************************************)
Scanned == 1..Len(scanned)
IsRoleLabel(i) == ActiveLabel(scanned[i], extract_type) = "Role-Label"

Max(S) == CHOOSE x \in S : \A y \in S : y <= x

\* scan position of the most recent Role-Label line before position i (0: none)
GoverningRL(i) == Max({0} \cup {j \in 1..(i - 1) : IsRoleLabel(j)})

\* the content list of the block of the Role-Label line at position k
Content(k) == IF scanned[k] \in DOMAIN mapping THEN mapping[scanned[k]] ELSE <<>>

InBlock(i, k) == \E p \in 1..Len(Content(k)) : Content(k)[p] = scanned[i]

\* a content line: not a Role-Label line, seen while a role label is current
IsContent(i) == i \in Scanned /\ ~IsRoleLabel(i) /\ GoverningRL(i) > 0

\* last accepted line before position i under the role label at k: the role
\* label itself until a line is accepted
LastAccepted(i, k) == Max({k} \cup {j \in (k + 1)..(i - 1) : InBlock(j, k)})

IndentDist(i, j) == Abs(scanned[i].indent - scanned[j].indent)
NumDist(i, j) == Abs(scanned[i].num - scanned[j].num)

\* C1: a non-Role-Label line seen while a role label is current is in the
\* current block iff its indent is strictly within indent_diff_thresh of the
\* role label's indent and its line number strictly within lnum_diff_thresh of
\* the last accepted line's (the role label's until a line is accepted).
C1_AcceptIff ==
    \A i \in Scanned : IsContent(i) =>
        LET k == GoverningRL(i)
            la == LastAccepted(i, k)
        IN InBlock(i, k) <=>
              (IndentDist(i, k) < indent_diff_thresh
               /\ NumDist(i, la) < lnum_diff_thresh)

\* C1 witness: after a line was accepted (the last accepted line is no longer
\* the role label), a line exactly at the indent threshold, and within the
\* line-number threshold of that accepted line, was rejected
C1_Witness ==
    \E i \in Scanned :
        /\ IsContent(i)
        /\ LastAccepted(i, GoverningRL(i)) # GoverningRL(i)
        /\ IndentDist(i, GoverningRL(i)) = indent_diff_thresh
        /\ NumDist(i, LastAccepted(i, GoverningRL(i))) < lnum_diff_thresh
        /\ ~InBlock(i, GoverningRL(i))

\* the chain example of the specification: thresholds 10 / 10,
\* Role-Label(indent 0, num 0), Line(indent 5, num 1), Line(indent 14, num 2)
IsChainExample ==
    /\ indent_diff_thresh = 10 /\ lnum_diff_thresh = 10
    /\ Len(scanned) = 3
    /\ IsRoleLabel(1) /\ scanned[1].indent = 0 /\ scanned[1].num = 0
    /\ ~IsRoleLabel(2) /\ scanned[2].indent = 5 /\ scanned[2].num = 1
    /\ ~IsRoleLabel(3) /\ scanned[3].indent = 14 /\ scanned[3].num = 2

\* C2 (as claimed): the indent check chains on the last accepted line: a line
\* within both thresholds of the last accepted line is accepted, and the chain
\* example yields a block holding both content lines.
C2_ChainOnIndent_Original ==
    /\ \A i \in Scanned : IsContent(i) =>
          LET k == GoverningRL(i)
              la == LastAccepted(i, k)
          IN (IndentDist(i, la) < indent_diff_thresh
              /\ NumDist(i, la) < lnum_diff_thresh) => InBlock(i, k)
    /\ IsChainExample => Content(1) = <<scanned[2], scanned[3]>>

\* C2 (amended): only the line-number check chains on the last accepted line;
\* the indent check is always against the role label.  A line whose indent is
\* indent_diff_thresh or more from the role label's is rejected even when it
\* is within the threshold of the last accepted line's indent; a line within
\* lnum_diff_thresh of the last accepted line's number (indent near the role
\* label) is accepted however far its number is from the role label's; the
\* chain example yields a block holding the first content line only.
C2_ChainOnLineNumberOnly ==
    /\ \A i \in Scanned : IsContent(i) =>
          LET k == GoverningRL(i)
              la == LastAccepted(i, k)
          IN /\ IndentDist(i, k) >= indent_diff_thresh => ~InBlock(i, k)
             /\ (NumDist(i, la) < lnum_diff_thresh
                 /\ IndentDist(i, k) < indent_diff_thresh) => InBlock(i, k)
    /\ IsChainExample => Content(1) = <<scanned[2]>>

\* C2 witness: the chain example has been scanned and returned
C2_Witness ==
    /\ IsChainExample
    /\ bpc = "returned"
    /\ IndentDist(3, 2) < indent_diff_thresh
    /\ ~InBlock(3, 1)

\* a Role-Label line at k under which some line was accepted: some line of its
\* range passes the test against the role label itself
HasAccepted(k) ==
    \E j \in Scanned : /\ IsContent(j) /\ GoverningRL(j) = k
                        /\ IndentDist(j, k) < indent_diff_thresh
                        /\ NumDist(j, k) < lnum_diff_thresh

\* C3 (as claimed): in the returned mapping every Role-Label line of the
\* input is a key, one without accepted lines mapping to the empty list.
C3_EveryRoleLabelIsKey_Original ==
    bpc = "returned" =>
        \A i \in Scanned : IsRoleLabel(i) =>
            /\ scanned[i] \in DOMAIN mapping
            /\ (~HasAccepted(i) => mapping[scanned[i]] = <<>>)

\* C3 (amended): the keys of the returned mapping are exactly the Role-Label
\* lines under which at least one line was accepted, each mapped to a
\* non-empty list; a Role-Label line none of whose following lines were
\* accepted is not a key.
C3_KeysAreNonEmptyBlocks ==
    bpc = "returned" =>
        /\ DOMAIN mapping = {scanned[i] : i \in {j \in Scanned : IsRoleLabel(j) /\ HasAccepted(j)}}
        /\ \A k \in DOMAIN mapping : mapping[k] # <<>>

\* C3 witness: returned with one Role-Label line a key and another one absent
C3_Witness ==
    /\ bpc = "returned"
    /\ \E i \in Scanned : IsRoleLabel(i) /\ scanned[i] \notin DOMAIN mapping
    /\ \E i \in Scanned : IsRoleLabel(i) /\ scanned[i] \in DOMAIN mapping

\* the blocks are keyed by scanned Role-Label lines; each content line is a
\* scanned non-Role-Label line sitting in the block of the most recent
\* Role-Label line before it, and content lists are in scan order
C4_BlockShape ==
    /\ \A k \in DOMAIN mapping : \E i \in Scanned : IsRoleLabel(i) /\ scanned[i] = k
    /\ \A k \in Scanned : \A p \in 1..Len(Content(k)) :
          LET l == Content(k)[p]
          IN /\ l.id \in Scanned /\ scanned[l.id] = l
             /\ ~IsRoleLabel(l.id)
             /\ GoverningRL(l.id) = k
             /\ \A q \in 1..(p - 1) : Content(k)[q].id < l.id
    /\ (\A i \in Scanned : ~IsRoleLabel(i)) => mapping = <<>>

\* a line already scanned is never attached to (or removed from) a block later
C4_NoLateAttach ==
    \A i \in Scanned : \A k \in Scanned : InBlock(i, k)' <=> InBlock(i, k)

\* C4: every line of the result is in the content of exactly one block, that
\* of the most recent Role-Label line before it, content lists keep scan
\* order, a line with no preceding Role-Label line is in no block (no
\* Role-Label line: empty mapping), and a rejected line is never attached
\* to a block later.
C4_OneBlockPerLine == []C4_BlockShape /\ [][C4_NoLateAttach]_vars

\* C4 witness: a line was rejected, a later line of the same block accepted
C4_Witness ==
    /\ bpc = "returned"
    /\ \E i \in Scanned : \E j \in Scanned :
          /\ i < j /\ IsContent(i) /\ IsContent(j)
          /\ GoverningRL(i) = GoverningRL(j)
          /\ ~InBlock(i, GoverningRL(i)) /\ InBlock(j, GoverningRL(j))

(***************************************************************************)
(* LineInfoExtractor: entity extraction from a line's text                 *)
(***************************************************************************)
\* content lines processed per conference, blocks per conference
MaxContent == 3
MaxBlocks == 2

\* the NER tagger (flair, an external capability): the tag of each token of
\* the vocabulary, "O" for a token that is no entity
TokenTag(tok) ==
    CASE tok \in {"Alice", "Bob", "bob"} -> "PER"
      [] tok \in {"MIT", "Acme Corp"} -> "ORG"
      [] tok \in {"Springfield", "Boston"} -> "LOC"
      [] OTHER -> "O"

\* str.split(","): the token "," separates the parts; n separators give
\* n + 1 parts, empty ones included
RECURSIVE SplitComma(_)
SplitComma(text) ==
    IF text = <<>> THEN << <<>> >>
    ELSE LET rest == SplitComma(Tail(text))
         IN IF Head(text) = ","
            THEN << <<>> >> \o rest
            ELSE << <<Head(text)>> \o Head(rest) >> \o Tail(rest)

\* part.get_spans('ner') after predict: the entity spans of one part, in order
RECURSIVE GetSpans(_)
GetSpans(part) ==
    IF part = <<>> THEN <<>>
    ELSE (IF TokenTag(Head(part)) = "O" THEN <<>>
          ELSE << [tag |-> TokenTag(Head(part)), text |-> <<Head(part)>>] >>)
         \o GetSpans(Tail(part))

\* variant: a type that is already filled keeps its first value
AssignPart_first_wins(parts, entity) ==
    IF parts[entity.tag] # NoText THEN parts
    ELSE [parts EXCEPT ![entity.tag] = entity.text]

\* line 124: line_parts[entity.tag] = entity.text
AssignPart(parts, entity) == [parts EXCEPT ![entity.tag] = entity.text]

\* lines 123-124: the inner loop over the spans of one part
RECURSIVE AssignSpans(_, _)
AssignSpans(parts, spans) ==
    IF spans = <<>> THEN parts
    ELSE AssignSpans(AssignPart(parts, Head(spans)), Tail(spans))

\* lines 119-124: the outer loop over the comma-separated parts
RECURSIVE AssignAllParts(_, _)
AssignAllParts(parts, text_parts) ==
    IF text_parts = <<>> THEN parts
    ELSE AssignAllParts(AssignSpans(parts, GetSpans(Head(text_parts))),
                        Tail(text_parts))

\* lines 113-127
get_line_parts_flair(line) == AssignAllParts(NoParts, SplitComma(line.text))

(***************************************************************************)
(* The two stores.  A world w is the record of both stores plus the calls   *)
(* the writer made in the current step, the graph transactions it ran, and *)
(* the step's fault schedule: fault_at store operations succeed and the    *)
(* next one raises (-1: none raises); error is the exception raised so far. *)
(***************************************************************************)
World ==
    [Persons |-> Persons, Organizations |-> Organizations,
     PersonRole |-> PersonRole, PersonOrganization |-> PersonOrganization,
     g_nodes |-> g_nodes, g_rels |-> g_rels, calls |-> <<>>, txs |-> <<>>,
     fault_at |-> -1, error |-> "none"]

\* the stores at the start of a step in which the store operation number n
\* (from 0) raises
FaultyWorld(n) == [World EXCEPT !.fault_at = n]

\* one store operation (cur.execute for kind "sql", write_transaction for
\* kind "graph") whose effect is eff: after an exception nothing more of the
\* step runs; the operation the schedule names raises and has no effect
Exec(w, kind, eff) ==
    IF w.error # "none" THEN w
    ELSE IF w.fault_at = 0 THEN [w EXCEPT !.error = kind, !.fault_at = -1]
    ELSE IF w.fault_at > 0 THEN [eff EXCEPT !.fault_at = w.fault_at - 1]
    ELSE eff

\* a graph transaction: write_transaction(TxFn.<name>, ...)
Tx(w, name, eff) ==
    Exec(w, "graph", [eff EXCEPT !.txs = Append(@, name)])

SetWorld(w) ==
    /\ Persons' = w.Persons
    /\ Organizations' = w.Organizations
    /\ PersonRole' = w.PersonRole
    /\ PersonOrganization' = w.PersonOrganization
    /\ g_nodes' = w.g_nodes
    /\ g_rels' = w.g_rels
    /\ emitted' = w.calls
    /\ tx_calls' = w.txs

\* a step in which the writer is not called
NoCalls == emitted' = <<>> /\ tx_calls' = <<>>

\* position of the first element of seq satisfying key = k (0: none)
IndexOfName(names, k) ==
    IF \E i \in 1..Len(names) : names[i] = k
    THEN CHOOSE i \in 1..Len(names) :
            names[i] = k /\ \A j \in 1..(i - 1) : names[j] # k
    ELSE 0

\* INSERT OR IGNORE INTO t (name) on a table whose name column is unique
InsertOrIgnore(names, k) ==
    IF IndexOfName(names, k) # 0 THEN names ELSE Append(names, k)

OrgNames(orgs) == [i \in 1..Len(orgs) |-> orgs[i].name]

\* graph store: get-or-create of the node (label, key); ids count from 0
NodeKeys(nodes) == [i \in 1..Len(nodes) |-> <<nodes[i].label, nodes[i].key>>]

MergeNode(nodes, label, key) ==
    IF IndexOfName(NodeKeys(nodes), <<label, key>>) # 0 THEN nodes
    ELSE Append(nodes, [label |-> label, key |-> key, loc |-> NoText])

NodeId(nodes, label, key) == IndexOfName(NodeKeys(nodes), <<label, key>>) - 1

\* self.session.write_transaction(TxFn.create_person / create_organization /
\* create_conference, key): the node's graph id
TxCreate(w, label, key) ==
    LET nodes == MergeNode(w.g_nodes, label, key)
    IN [w |-> Tx(w, "create", [w EXCEPT !.g_nodes = nodes]),
        id |-> NodeId(nodes, label, key)]

\* TxFn.create_affiliation_rel(person_id, org_id)
TxAffiliationRel(w, n4j_pid, n4j_oid) ==
    Tx(w, "create_affiliation_rel",
       [w EXCEPT !.g_rels = @ \cup {<<"AFFILIATED", n4j_pid, n4j_oid>>}])

\* TxFn.create_role_rel(person_id, role, conf_id)
TxRoleRel(w, n4j_pid, role, n4j_cid) ==
    Tx(w, "create_role_rel",
       [w EXCEPT !.g_rels = @ \cup {<<"ROLE", n4j_pid, n4j_cid, role>>}])

\* TxFn.update_org_loc(org_id, loc): sets the property on the node with that id
TxUpdateOrgLoc(w, n4j_oid, loc) ==
    Tx(w, "update_org_loc",
       IF n4j_oid + 1 \in 1..Len(w.g_nodes)
       THEN [w EXCEPT !.g_nodes[n4j_oid + 1].loc = loc]
       ELSE w)

\* a writer call that returned (one that raised is not recorded)
Called(w, call) ==
    IF w.error # "none" THEN w ELSE [w EXCEPT !.calls = Append(@, call)]

\* `if self.session:` a session object, open or closed, is true; None is not
HasSession == session # "None"

\* variant: the name is lower-cased before it is stored and looked up
Lower(tok) == IF tok = "Bob" THEN "bob" ELSE tok

add_person_normalized(w, person) ==
    LET name == [i \in 1..Len(person) |-> Lower(person[i])]
        w1 == Exec(w, "sql", [w EXCEPT !.Persons = InsertOrIgnore(@, name)])
        sql_pid == IndexOfName(w1.Persons, name)
    IN IF HasSession
       THEN LET r == TxCreate(w1, "Person", name)
            IN [w |-> Called(r.w, <<"add_person", person, <<r.id, sql_pid>>>>),
                ids |-> <<r.id, sql_pid>>]
       ELSE [w |-> Called(w1, <<"add_person", person, <<-1, sql_pid>>>>),
             ids |-> <<-1, sql_pid>>]

\* variant: without a session the relational id is returned in both places
add_person_relational_id(w, person) ==
    LET w1 == Exec(w, "sql", [w EXCEPT !.Persons = InsertOrIgnore(@, person)])
        sql_pid == IndexOfName(w1.Persons, person)
    IN IF HasSession
       THEN LET r == TxCreate(w1, "Person", person)
            IN [w |-> Called(r.w, <<"add_person", person, <<r.id, sql_pid>>>>),
                ids |-> <<r.id, sql_pid>>]
       ELSE [w |-> Called(w1, <<"add_person", person, <<sql_pid, sql_pid>>>>),
             ids |-> <<sql_pid, sql_pid>>]

\* lines 210-220; ids = <<n4j id, sql id>> (Python person_ids[0], person_ids[1])
add_person(w, person) ==
    LET w1 == Exec(w, "sql", [w EXCEPT !.Persons = InsertOrIgnore(@, person)])
        sql_pid == IndexOfName(w1.Persons, person)
    IN IF HasSession
       THEN LET r == TxCreate(w1, "Person", person)
            IN [w |-> Called(r.w, <<"add_person", person, <<r.id, sql_pid>>>>),
                ids |-> <<r.id, sql_pid>>]
       ELSE [w |-> Called(w1, <<"add_person", person, <<-1, sql_pid>>>>),
             ids |-> <<-1, sql_pid>>]

\* variant: a plain INSERT, a new row on every call
add_organization_plain_insert(w, org) ==
    LET w1 == Exec(w, "sql",
                   [w EXCEPT !.Organizations =
                        Append(@, [name |-> org, location |-> NoText])])
        sql_oid == IndexOfName(OrgNames(w1.Organizations), org)
    IN IF HasSession
       THEN LET r == TxCreate(w1, "Organization", org)
            IN [w |-> Called(r.w, <<"add_organization", org, <<r.id, sql_oid>>>>),
                ids |-> <<r.id, sql_oid>>]
       ELSE [w |-> Called(w1, <<"add_organization", org, <<-1, sql_oid>>>>),
             ids |-> <<-1, sql_oid>>]

\* lines 222-232
add_organization(w, org) ==
    LET w1 == Exec(w, "sql",
                   IF IndexOfName(OrgNames(w.Organizations), org) # 0 THEN w
                   ELSE [w EXCEPT !.Organizations =
                             Append(@, [name |-> org, location |-> NoText])])
        sql_oid == IndexOfName(OrgNames(w1.Organizations), org)
    IN IF HasSession
       THEN LET r == TxCreate(w1, "Organization", org)
            IN [w |-> Called(r.w, <<"add_organization", org, <<r.id, sql_oid>>>>),
                ids |-> <<r.id, sql_oid>>]
       ELSE [w |-> Called(w1, <<"add_organization", org, <<-1, sql_oid>>>>),
             ids |-> <<-1, sql_oid>>]

\* lines 234-235
add_conference(w, conf) == TxCreate(w, "Conference", <<conf.id>>)

\* lines 237-242: the graph call is given person_ids[0] and org_ids[1]
add_affiliation_rel(w, person_ids, org_ids) ==
    LET w1 == Exec(w, "sql", [w EXCEPT !.PersonOrganization =
                                  @ \cup {<<org_ids[2], person_ids[2]>>}])
        w2 == IF HasSession THEN TxAffiliationRel(w1, person_ids[1], org_ids[2])
              ELSE w1
    IN Called(w2, <<"add_affiliation_rel", person_ids, org_ids>>)

\* lines 244-249
add_role_rel(w, person_ids, role) ==
    LET w1 == Exec(w, "sql", [w EXCEPT !.PersonRole =
                                  @ \cup {<<role, sql_conf_id[1], person_ids[2]>>}])
        w2 == IF HasSession
              THEN TxRoleRel(w1, person_ids[1], role, n4j_conf_id[1])
              ELSE w1
    IN Called(w2, <<"add_role_rel", person_ids, role>>)

\* variant: the location is set once and later ones are dropped
update_org_loc_set_once(w, org_ids, loc) ==
    LET w1 == Exec(w, "sql",
                   IF /\ org_ids[2] \in 1..Len(w.Organizations)
                      /\ w.Organizations[org_ids[2]].location = NoText
                   THEN [w EXCEPT !.Organizations[org_ids[2]].location = loc]
                   ELSE w)
        w2 == IF HasSession THEN TxUpdateOrgLoc(w1, org_ids[1], loc) ELSE w1
    IN Called(w2, <<"update_org_loc", org_ids, loc>>)

\* lines 251-256
update_org_loc(w, org_ids, loc) ==
    LET w1 == Exec(w, "sql",
                   IF org_ids[2] \in 1..Len(w.Organizations)
                   THEN [w EXCEPT !.Organizations[org_ids[2]].location = loc]
                   ELSE w)
        w2 == IF HasSession THEN TxUpdateOrgLoc(w1, org_ids[1], loc) ELSE w1
    IN Called(w2, <<"update_org_loc", org_ids, loc>>)

(***************************************************************************)
(* LineInfoExtractor.process_complex / process_pair                        *)
(***************************************************************************)
\* variant: the affiliation relation of a Complex line is not added
process_complex_no_affiliation(w, line, rl) ==
    LET lp == get_line_parts_flair(line)
        rp == add_person(w, lp["PER"])
        w1 == IF lp["PER"] # NoText THEN add_role_rel(rp.w, rp.ids, rl.text) ELSE w
        ro == add_organization(w1, lp["ORG"])
        w2 == IF lp["ORG"] # NoText
              THEN (IF lp["LOC"] # NoText
                    THEN update_org_loc(ro.w, ro.ids, lp["LOC"]) ELSE ro.w)
              ELSE w1
    IN [w |-> w2, line_parts |-> lp]

\* lines 129-142
process_complex(w, line, rl) ==
    LET lp == get_line_parts_flair(line)
        rp == add_person(w, lp["PER"])
        w1 == IF lp["PER"] # NoText THEN add_role_rel(rp.w, rp.ids, rl.text) ELSE w
        ro == add_organization(w1, lp["ORG"])
        w2 == IF lp["ORG"] # NoText
              THEN (IF lp["LOC"] # NoText
                    THEN update_org_loc(ro.w, ro.ids, lp["LOC"]) ELSE ro.w)
              ELSE w1
        w3 == IF lp["PER"] # NoText /\ lp["ORG"] # NoText
              THEN add_affiliation_rel(w2, rp.ids, ro.ids) ELSE w2
    IN [w |-> w3, line_parts |-> lp]

\* variant: the organization is added to the stores as they were before the
\* role was recorded, so the role write is lost when an ORG is found
process_pair_drops_role(w, person, affiliation, rl) ==
    LET rp == add_person(w, person.text)
        lp == get_line_parts_flair(affiliation)
        w1 == add_role_rel(rp.w, rp.ids, rl.text)
        ro == add_organization(rp.w, lp["ORG"])
        w2 == IF lp["LOC"] # NoText
              THEN update_org_loc(ro.w, ro.ids, lp["LOC"]) ELSE ro.w
        w3 == IF lp["ORG"] # NoText
              THEN add_affiliation_rel(w2, rp.ids, ro.ids) ELSE w1
    IN [w |-> w3, line_parts |-> lp]

\* lines 144-157
process_pair(w, person, affiliation, rl) ==
    LET rp == add_person(w, person.text)
        w1 == add_role_rel(rp.w, rp.ids, rl.text)
        lp == get_line_parts_flair(affiliation)
        ro == add_organization(w1, lp["ORG"])
        w2 == IF lp["LOC"] # NoText
              THEN update_org_loc(ro.w, ro.ids, lp["LOC"]) ELSE ro.w
        w3 == IF lp["ORG"] # NoText
              THEN add_affiliation_rel(w2, rp.ids, ro.ids) ELSE w1
    IN [w |-> w3, line_parts |-> lp]

(***************************************************************************)
(* Inputs of process_conference                                            *)
(***************************************************************************)
ConfIds == {5}
RoleTexts == {<<"PC Chair">>, <<"Organizer">>}
PersonTexts == {<<"Alice">>, <<"Bob">>, <<"bob">>}
AffiliationTexts ==
    {<<"MIT">>, <<"Acme Corp", ",", "Springfield">>, <<"Springfield">>,
     <<"MIT", ",", "Acme Corp", ",", "Boston">>, <<"Acme Corp">>}
ComplexTexts ==
    {<<"Bob", ",", "MIT">>, <<"Alice">>,
     <<"Alice", "bob", ",", "Acme Corp", ",", "Boston">>}
OtherTexts == {<<"Dept">>}

\* the content lines a block can hold at position id of the conference
ContentLines(id, etype) ==
    {LineWith(id, 0, 0, "Person", etype, t) : t \in PersonTexts}
    \cup {LineWith(id, 0, 0, "Affiliation", etype, t) : t \in AffiliationTexts}
    \cup {LineWith(id, 0, 0, "Complex", etype, t) : t \in ComplexTexts}
    \cup {LineWith(id, 0, 0, "Other", etype, t) : t \in OtherTexts}

ConfInit ==
    /\ driver \in BOOLEAN
    /\ ConfConstructed
    /\ SingleRun
    /\ OthersIdle
    /\ extract_type \in {"gold", "dl_prediction"}
    /\ indent_diff_thresh = 0
    /\ lnum_diff_thresh = 0
    /\ scanned = <<>>
    /\ role_label = None
    /\ prev_labelled = None
    /\ mapping = <<>>
    /\ bpc = "idle"

(***************************************************************************)
(* LineInfoExtractor.process_conference / process_block                    *)
(***************************************************************************)
\* lines 196-201
OpenConference ==
    /\ cpc = "idle"
    /\ \E c \in ConfIds :
        /\ conference' = [id |-> c]
        /\ sql_conf_id' = <<c>>
        /\ IF driver
           THEN LET r == add_conference(World, [id |-> c])
                IN /\ session' = "open"
                   /\ n4j_conf_id' = <<r.id>>
                   /\ SetWorld(r.w)
           ELSE /\ UNCHANGED <<session, n4j_conf_id, store>>
                /\ NoCalls
    /\ cpc' = "blocks"
    /\ UNCHANGED <<driver, blocks_started, n_content, c_role_label, cur_idx,
                   cur_line, u_person, u_aff, line_parts, parsed>>
    /\ UNCHANGED <<pairings, outside_conf>>

\* lines 203-204 and 163-165: the next block is handed to process_block, whose
\* locals start as given
\* the role labels the next block of conference.blocks can have
NextRoleLabels ==
    IF blocks = <<>>
    THEN {LineWith(0, 0, 0, "Role-Label", extract_type, role) : role \in RoleTexts}
    ELSE IF blocks_started < Len(blocks[1])
    THEN {blocks[1][blocks_started + 1].role}
    ELSE {}

\* the lines content_lines[cur_idx] can be
NextContent ==
    IF blocks = <<>> THEN ContentLines(n_content + 1, extract_type)
    ELSE IF cur_idx < Len(blocks[1][blocks_started].content)
    THEN {blocks[1][blocks_started].content[cur_idx + 1]}
    ELSE {}

\* the loop over content_lines, or over conference.blocks, can end here
ContentExhausted ==
    IF blocks = <<>> THEN TRUE
    ELSE cur_idx = Len(blocks[1][blocks_started].content)

BlocksExhausted ==
    IF blocks = <<>> THEN TRUE ELSE blocks_started = Len(blocks[1])

StartBlockWith(up, ua) ==
    /\ cpc = "blocks"
    /\ blocks_started < MaxBlocks
    /\ \E rl \in NextRoleLabels : c_role_label' = rl
    /\ blocks_started' = blocks_started + 1
    /\ cur_idx' = 0
    /\ cur_line' = None
    /\ u_person' = up
    /\ u_aff' = ua
    /\ cpc' = "block"
    /\ pairings' = 0
    /\ NoCalls
    /\ UNCHANGED <<driver, session, conference, sql_conf_id, n4j_conf_id,
                   n_content, line_parts, parsed, store>>
    /\ UNCHANGED outside_conf

\* variant: the pending lines survive from one block to the next
StartBlock_keep_pending == StartBlockWith(u_person, u_aff)

\* line 165: u_person, u_aff = None, None
StartBlock == StartBlockWith(None, None)

CanProcess == cpc = "block" /\ n_content < MaxContent

\* what every loop iteration does besides its branch (lines 166, 188-189)
Advance(line) ==
    /\ cur_line' = line
    /\ cur_idx' = cur_idx + 1
    /\ n_content' = n_content + 1
    /\ UNCHANGED <<driver, session, conference, sql_conf_id, n4j_conf_id, cpc,
                   blocks_started, c_role_label>>
    /\ UNCHANGED outside_conf

\* lines 171-172
ProcessComplexLine ==
    /\ CanProcess
    /\ \E line \in NextContent :
        /\ ActiveLabel(line, extract_type) = "Complex"
        /\ LET r == process_complex(World, line, c_role_label)
           IN /\ SetWorld(r.w)
              /\ line_parts' = r.line_parts
              /\ parsed' = line
        /\ UNCHANGED <<u_person, u_aff>>
        /\ UNCHANGED pairings
        /\ Advance(line)

\* variant: a pending Person line is kept when another Person line follows
ProcessPersonLine_first_wins ==
    /\ CanProcess
    /\ \E line \in NextContent :
        /\ ActiveLabel(line, extract_type) = "Person"
        /\ IF u_aff # None
           THEN LET r == process_pair(World, line, u_aff, c_role_label)
                IN /\ SetWorld(r.w)
                   /\ line_parts' = r.line_parts
                   /\ parsed' = u_aff
                   /\ u_person' = None
                   /\ u_aff' = None
                   /\ pairings' = pairings + 1
           ELSE /\ u_person' = IF u_person # None THEN u_person ELSE line
                /\ NoCalls
                /\ UNCHANGED <<u_aff, line_parts, parsed, store, pairings>>
        /\ Advance(line)

\* lines 174-178
ProcessPersonLine ==
    /\ CanProcess
    /\ \E line \in NextContent :
        /\ ActiveLabel(line, extract_type) = "Person"
        /\ IF u_aff # None
           THEN LET r == process_pair(World, line, u_aff, c_role_label)
                IN /\ SetWorld(r.w)
                   /\ line_parts' = r.line_parts
                   /\ parsed' = u_aff
                   /\ u_person' = None
                   /\ u_aff' = None
                   /\ pairings' = pairings + 1
           ELSE /\ u_person' = line
                /\ NoCalls
                /\ UNCHANGED <<u_aff, line_parts, parsed, store, pairings>>
        /\ Advance(line)

\* variant: the pending Person line outlives its pairing
ProcessAffiliationLine_keeps_person ==
    /\ CanProcess
    /\ \E line \in NextContent :
        /\ ActiveLabel(line, extract_type) = "Affiliation"
        /\ IF u_person # None
           THEN LET r == process_pair(World, u_person, line, c_role_label)
                IN /\ SetWorld(r.w)
                   /\ line_parts' = r.line_parts
                   /\ parsed' = line
                   /\ u_person' = u_person
                   /\ u_aff' = None
                   /\ pairings' = pairings + 1
           ELSE /\ u_aff' = line
                /\ NoCalls
                /\ UNCHANGED <<u_person, line_parts, parsed, store, pairings>>
        /\ Advance(line)

\* lines 179-183
ProcessAffiliationLine ==
    /\ CanProcess
    /\ \E line \in NextContent :
        /\ ActiveLabel(line, extract_type) = "Affiliation"
        /\ IF u_person # None
           THEN LET r == process_pair(World, u_person, line, c_role_label)
                IN /\ SetWorld(r.w)
                   /\ line_parts' = r.line_parts
                   /\ parsed' = line
                   /\ u_person' = None
                   /\ u_aff' = None
                   /\ pairings' = pairings + 1
           ELSE /\ u_aff' = line
                /\ NoCalls
                /\ UNCHANGED <<u_person, line_parts, parsed, store, pairings>>
        /\ Advance(line)

\* lines 184-186: any other label is reported and skipped
ProcessOtherLine ==
    /\ CanProcess
    /\ \E line \in NextContent :
        /\ ActiveLabel(line, extract_type) \notin {"Complex", "Person", "Affiliation"}
        /\ NoCalls
        /\ UNCHANGED <<u_person, u_aff, line_parts, parsed, store>>
        /\ UNCHANGED pairings
        /\ Advance(line)

\* content_lines exhausted: process_block returns (its locals are shown as it
\* left them until the next call)
EndBlock ==
    /\ cpc = "block"
    /\ ContentExhausted
    /\ cpc' = "blocks"
    /\ NoCalls
    /\ UNCHANGED <<driver, session, conference, sql_conf_id, n4j_conf_id,
                   blocks_started, n_content, c_role_label, cur_idx, cur_line,
                   u_person, u_aff, line_parts, parsed, store>>
    /\ UNCHANGED <<pairings, outside_conf>>

\* lines 206-208: conference.blocks exhausted
CloseConference ==
    /\ cpc = "blocks"
    /\ BlocksExhausted
    /\ cpc' = "done"
    /\ session' = IF driver THEN "closed" ELSE session
    /\ NoCalls
    /\ UNCHANGED <<driver, conference, sql_conf_id, n4j_conf_id,
                   blocks_started, n_content, c_role_label, cur_idx, cur_line,
                   u_person, u_aff, line_parts, parsed, store>>
    /\ UNCHANGED <<pairings, outside_conf>>

ConfNext ==
    \/ OpenConference
    \/ StartBlock
    \/ ProcessComplexLine
    \/ ProcessPersonLine
    \/ ProcessAffiliationLine
    \/ ProcessOtherLine
    \/ EndBlock
    \/ CloseConference

SpecConf == ConfInit /\ [][ConfNext]_vars

(***************************************************************************)
(* process_conference when a store operation raises.  No statement of      *)
(* lines 129-256 catches an exception: it leaves process_block and then    *)
(* process_conference at once (cpc = "raised").                            *)
(***************************************************************************)
\* the store operations one loop iteration can make: process_pair makes five
\* writer calls of at most two operations each
FaultPoints == 0..9

\* the locals of the unwound frames are shown as they were before the step
Unwound ==
    /\ cpc' = "raised"
    /\ UNCHANGED <<driver, conference, sql_conf_id, n4j_conf_id,
                   blocks_started, n_content, c_role_label, cur_idx, cur_line,
                   u_person, u_aff, line_parts, parsed>>
    /\ UNCHANGED <<bvars, rvars, svars, lvars, pairings>>

\* line 197: self.driver.session() raises; self.session is not assigned
OpenSessionRaises ==
    /\ cpc = "idle"
    /\ driver
    /\ error' = "session"
    /\ NoCalls
    /\ UNCHANGED <<session, store>>
    /\ Unwound

\* line 198: the transaction of add_conference raises on the session that
\* line 197 assigned
AddConferenceRaises ==
    /\ cpc = "idle"
    /\ driver
    /\ session' = "open"
    /\ \E c \in ConfIds :
        LET r == add_conference(FaultyWorld(0), [id |-> c])
        IN SetWorld(r.w) /\ error' = r.w.error
    /\ Unwound

\* a loop iteration whose writer calls leave the stores as w and raise
StepRaises(w) ==
    /\ w.error # "none"
    /\ SetWorld(w)
    /\ error' = w.error
    /\ UNCHANGED session
    /\ Unwound

\* lines 171-172, a store operation of process_complex raising
ComplexLineRaises ==
    /\ CanProcess
    /\ \E line \in NextContent, n \in FaultPoints :
        /\ ActiveLabel(line, extract_type) = "Complex"
        /\ StepRaises(process_complex(FaultyWorld(n), line, c_role_label).w)

\* lines 174-176, a store operation of process_pair raising
PersonLineRaises ==
    /\ CanProcess
    /\ u_aff # None
    /\ \E line \in NextContent, n \in FaultPoints :
        /\ ActiveLabel(line, extract_type) = "Person"
        /\ StepRaises(process_pair(FaultyWorld(n), line, u_aff, c_role_label).w)

\* lines 179-181, a store operation of process_pair raising
AffiliationLineRaises ==
    /\ CanProcess
    /\ u_person # None
    /\ \E line \in NextContent, n \in FaultPoints :
        /\ ActiveLabel(line, extract_type) = "Affiliation"
        /\ StepRaises(process_pair(FaultyWorld(n), u_person, line, c_role_label).w)

FaultNext ==
    \/ ConfNext
    \/ OpenSessionRaises
    \/ AddConferenceRaises
    \/ ComplexLineRaises
    \/ PersonLineRaises
    \/ AffiliationLineRaises

SpecFault == ConfInit /\ [][FaultNext]_vars

(***************************************************************************)
(* Vocabulary of the pairing and writer claims                             *)
(***************************************************************************)
LabelOf(line) == ActiveLabel(line, extract_type)

\* a step of process_block's loop: cur_line' is the line it processed
LineStep == cpc = "block" /\ cpc' = "block" /\ cur_idx' = cur_idx + 1

\* the ids a call of add_person / add_organization returned
ReturnedIds(call) == call[3]

CallsOf(op, calls) == SelectSeq(calls, LAMBDA c : c[1] = op)

\* positions of the tokens of text the tagger gives the tag
TagPositions(text, tag) == {i \in 1..Len(text) : TokenTag(text[i]) = tag}
HasTag(text, tag) == TagPositions(text, tag) # {}
IsSpanOf(name, text, tag) == \E i \in TagPositions(text, tag) : name = <<text[i]>>

\* the relational records a writer call's id pair refers to
PersonName(persons, ids) == persons[ids[2]]
OrgName(orgs, ids) == orgs[ids[2]].name

\* a Person line meets a pending Affiliation line, or the reverse
PairingStep ==
    /\ LineStep
    /\ \/ LabelOf(cur_line') = "Person" /\ u_aff # None
       \/ LabelOf(cur_line') = "Affiliation" /\ u_person # None

C5_Step ==
    PairingStep =>
        LET person == IF LabelOf(cur_line') = "Person" THEN cur_line' ELSE u_person
            aff == IF LabelOf(cur_line') = "Person" THEN u_aff ELSE cur_line'
            roles == CallsOf("add_role_rel", emitted')
            affs == CallsOf("add_affiliation_rel", emitted')
        IN HasTag(aff.text, "ORG") =>
            /\ Len(roles) = 1
            /\ PersonName(Persons', roles[1][2]) = person.text
            /\ roles[1][3] = c_role_label.text
            /\ <<c_role_label.text, conference.id, roles[1][2][2]>> \in PersonRole'
            /\ Len(affs) = 1
            /\ affs[1][2] = roles[1][2]
            /\ IsSpanOf(OrgName(Organizations', affs[1][3]), aff.text, "ORG")
            /\ <<affs[1][3][2], affs[1][2][2]>> \in PersonOrganization'
            /\ u_person' = None
            /\ u_aff' = None

\* C5: when a Person line is processed while an Affiliation line is pending,
\* or the reverse, and the affiliation text holds an ORGANIZATION, that step
\* emits exactly one person-role fact (that person, the role label's text
\* verbatim, the current conference) and exactly one affiliation fact (that
\* person, that organization), and afterwards nothing is pending; the facts
\* are stated in terms of the person and the affiliation line, whichever
\* came first.
C5_PairEmitsBothFacts == [][C5_Step]_vars

\* C5 witness: a pairing in the order [Affiliation, Person] has just emitted
C5_Witness ==
    /\ cpc = "block"
    /\ cur_line # None /\ LabelOf(cur_line) = "Person"
    /\ parsed # None /\ LabelOf(parsed) = "Affiliation"
    /\ Len(CallsOf("add_affiliation_rel", emitted)) = 1
    /\ u_person = None /\ u_aff = None

\* every block starts with nothing pending
C6_StartIdle == (cpc = "block" /\ cur_idx = 0) => (u_person = None /\ u_aff = None)

\* no store write when a line becomes pending, when a block ends (pending or
\* not), or when the next block starts
C6_Step ==
    /\ (LineStep /\ LabelOf(cur_line') \in {"Person", "Affiliation"}
          /\ (u_person' # None \/ u_aff' # None))
        => (UNCHANGED store /\ emitted' = <<>>)
    /\ (cpc = "block" /\ cpc' = "blocks") => (UNCHANGED store /\ emitted' = <<>>)
    /\ (cpc = "blocks" /\ cpc' = "block") => (UNCHANGED store /\ emitted' = <<>>)

\* C6: a Person or Affiliation line still pending at the end of its block is
\* discarded: no write is made for it when it becomes pending, when the
\* block ends or when the next block starts, and every block starts with
\* nothing pending (so a block that is a lone Person line writes nothing).
C6_PendingDiscarded == []C6_StartIdle /\ [][C6_Step]_vars

\* C6 witness: the first block was a lone Person line, it has ended with the
\* person still pending, and no store holds anything written by a block
C6_Witness ==
    /\ cpc = "blocks"
    /\ blocks_started = 1
    /\ cur_idx = 1
    /\ u_person # None
    /\ Persons = <<>> /\ Organizations = <<>>
    /\ PersonRole = {} /\ PersonOrganization = {}

ComplexStep == LineStep /\ LabelOf(cur_line') = "Complex"

C7_Step ==
    ComplexStep =>
        LET text == cur_line'.text
            roles == CallsOf("add_role_rel", emitted')
            affs == CallsOf("add_affiliation_rel", emitted')
        IN /\ u_person' = u_person
           /\ u_aff' = u_aff
           /\ (HasTag(text, "PER") /\ HasTag(text, "ORG")) =>
                /\ Len(roles) = 1
                /\ IsSpanOf(PersonName(Persons', roles[1][2]), text, "PER")
                /\ roles[1][3] = c_role_label.text
                /\ <<c_role_label.text, conference.id, roles[1][2][2]>> \in PersonRole'
                /\ Len(affs) = 1
                /\ affs[1][2] = roles[1][2]
                /\ IsSpanOf(OrgName(Organizations', affs[1][3]), text, "ORG")
                /\ <<affs[1][3][2], affs[1][2][2]>> \in PersonOrganization'

\* C7: processing a Complex line leaves the pending person and the pending
\* affiliation as they were, whatever they are, and when its text holds both
\* a PERSON and an ORGANIZATION that one step emits a person-role fact and an
\* affiliation fact for them.
C7_ComplexKeepsPending == [][C7_Step]_vars

\* C7 witness: a Complex line with PERSON and ORGANIZATION was processed while
\* a Person line was pending, and the person is still pending
C7_Witness ==
    /\ cpc = "block"
    /\ cur_line # None /\ LabelOf(cur_line) = "Complex"
    /\ u_person # None
    /\ Len(CallsOf("add_affiliation_rel", emitted)) = 1

Min(S) == CHOOSE x \in S : \A y \in S : x <= y

\* the first / last span of a type in scan order over the whole text
FirstSpan(text, tag) ==
    IF HasTag(text, tag) THEN <<text[Min(TagPositions(text, tag))]>> ELSE NoText
LastSpan(text, tag) ==
    IF HasTag(text, tag) THEN <<text[Max(TagPositions(text, tag))]>> ELSE NoText

\* C8 (as claimed): of several spans of one type in a line, the first in scan
\* order is kept and later ones are ignored.
C8_FirstWins_Original ==
    parsed # None => \A tag \in Tags : line_parts[tag] = FirstSpan(parsed.text, tag)

\* C8 (amended): entity extraction is last-wins per entity type: of several
\* spans of one type across the comma-separated fragments of a line, the
\* value kept is the last span in scan order; every earlier one is replaced.
C8_LastWins ==
    parsed # None => \A tag \in Tags : line_parts[tag] = LastSpan(parsed.text, tag)

\* C8 witness: a line with two spans of one type has been parsed
C8_Witness ==
    /\ parsed # None
    /\ \E tag \in Tags : /\ Cardinality(TagPositions(parsed.text, tag)) > 1
                         /\ FirstSpan(parsed.text, tag) # LastSpan(parsed.text, tag)
                         /\ line_parts[tag] = LastSpan(parsed.text, tag)

\* one record per name string, and every add_person call of the last step
\* returned the id of the record holding exactly the string it was given
C9_Table ==
    /\ \A i \in 1..Len(Persons) : \A j \in 1..Len(Persons) :
          Persons[i] = Persons[j] => i = j
    /\ \A n \in 1..Len(emitted) : emitted[n][1] = "add_person" =>
          /\ emitted[n][3][2] \in 1..Len(Persons)
          /\ Persons[emitted[n][3][2]] = emitted[n][2]

\* a record never changes its id or its name
C9_Step ==
    \A i \in 1..Len(Persons) : i <= Len(Persons') /\ Persons'[i] = Persons[i]

\* C9: add_person(name) returns the relational id of the record holding
\* exactly that string; records keep their id, and the Persons table holds
\* one record per distinct string: the same string always gets the same id,
\* and strings that differ (if only in letter case) get distinct records and
\* ids.
C9_AddPersonIdempotent == []C9_Table /\ [][C9_Step]_vars

\* C9 witness: "Bob" and "bob" both have a record, and add_person has just
\* been called again with the name of the older one
C9_Witness ==
    /\ \E i \in 1..Len(Persons) : Persons[i] = <<"Bob">>
    /\ \E i \in 1..Len(Persons) : Persons[i] = <<"bob">>
    /\ \E n \in 1..Len(emitted) : /\ emitted[n][1] = "add_person"
                                   /\ emitted[n][3][2] < Len(Persons)

\* the graph node with graph id gid is the node (label, key)
IsNode(gid, label, key) ==
    /\ gid + 1 \in 1..Len(g_nodes)
    /\ g_nodes[gid + 1].label = label
    /\ g_nodes[gid + 1].key = key

\* C10: every person or organization reference the writer passes to the graph
\* store is the graph id of that entity: each affiliation relationship
\* requested joins the graph node of a person to the graph node of an
\* organization that are affiliated in the relational store, and each role
\* relationship starts at the graph node of a person holding that role.
C10_GraphRefsAreGraphIds ==
    \A r \in g_rels :
        /\ r[1] = "AFFILIATED" =>
             \E po \in PersonOrganization :
                /\ IsNode(r[2], "Person", Persons[po[2]])
                /\ IsNode(r[3], "Organization", Organizations[po[1]].name)
        /\ r[1] = "ROLE" =>
             \E pr \in PersonRole :
                /\ IsNode(r[2], "Person", Persons[pr[3]])
                /\ pr[1] = r[4]

(***************************************************************************)
(* Organization locations                                                  *)
(***************************************************************************)
\* the step observed organization number o: add_organization returned its id
Observed(o, calls) ==
    \E i \in 1..Len(calls) :
        calls[i][1] = "add_organization" /\ ReturnedIds(calls[i])[2] = o

StoredLocation(orgs, o) == IF o \in 1..Len(orgs) THEN orgs[o].location ELSE NoText

C19_Step ==
    \A o \in 1..Len(Organizations') :
        IF Observed(o, emitted') /\ line_parts'["LOC"] # NoText
        THEN Organizations'[o].location = line_parts'["LOC"]
        ELSE Organizations'[o].location = StoredLocation(Organizations, o)

\* C19: a step that observes an organization with a LOCATION stores that
\* location for it, whatever was stored before; every other step, a step
\* that observes the organization without LOCATION among them, leaves its
\* stored location as it was
C19_LocationOfLastObservation == [][C19_Step]_vars

\* within three lines Acme Corp was observed in Boston on the Complex line
\* of its first person and has now been observed in Springfield with a
\* second person
C19_Witness ==
    /\ cpc = "block"
    /\ cur_line # None
    /\ cur_line.id = 3
    /\ cur_line.text = <<"Acme Corp", ",", "Springfield">>
    /\ parsed = cur_line
    /\ CallsOf("update_org_loc", emitted) # <<>>
    /\ Organizations =
          <<[name |-> <<"Acme Corp">>, location |-> <<"Springfield">>]>>
    /\ Len(Persons) = 2
    /\ Persons[1] = <<"bob">>
    /\ PersonOrganization = {<<1, 1>>, <<1, 2>>}

(***************************************************************************)
(* process_conference called twice on one conference, which is given      *)
(* whole (conference.blocks)                                               *)
(***************************************************************************)
\* sequences over S of length at most n
SeqsUpTo(S, n) == UNION {[1..k -> S] : k \in 0..n}

\* the lines of a block's content, their ids their positions
ContentSeqs(etype) ==
    SeqsUpTo(ContentLines(0, etype), MaxContent)

Numbered(c) == [i \in 1..Len(c) |-> [c[i] EXCEPT !.id = i]]

\* conference.blocks of a conference with one block
OneBlockConferences(etype) ==
    {<<[role |-> LineWith(0, 0, 0, "Role-Label", etype, role),
        content |-> Numbered(c)]>> :
        role \in RoleTexts, c \in ContentSeqs(etype)}

\* the caller's second call: process_conference starts over on the same
\* conference

RerunInit ==
    /\ driver \in BOOLEAN
    /\ ConfConstructed
    /\ extract_type = "gold"
    /\ \E bs \in OneBlockConferences(extract_type) : blocks = <<bs>>
    /\ OthersIdle
    /\ runs = 0
    /\ first_run = None
    /\ indent_diff_thresh = 0
    /\ lnum_diff_thresh = 0
    /\ scanned = <<>>
    /\ role_label = None
    /\ prev_labelled = None
    /\ mapping = <<>>
    /\ bpc = "idle"

RelationalTables == <<Persons, Organizations, PersonRole, PersonOrganization>>

\* the caller keeps the tables of the first call and calls process_conference
\* again with the same conference
CallAgain ==
    /\ cpc = "done"
    /\ runs = 0
    /\ runs' = 1
    /\ first_run' = RelationalTables
    /\ cpc' = "idle"
    /\ NoCalls
    /\ blocks_started' = 0
    /\ n_content' = 0
    /\ UNCHANGED <<driver, session, conference, sql_conf_id, n4j_conf_id,
                   c_role_label, cur_idx, cur_line, u_person, u_aff,
                   line_parts, parsed, store>>
    /\ UNCHANGED <<bvars, error, pairings, blocks, svars, lvars>>

RerunNext ==
    \/ ConfNext
    \/ CallAgain

SpecRerun == RerunInit /\ [][RerunNext]_vars

\* the conference of the end-to-end example
ExampleConference ==
    <<[role |-> LineWith(0, 0, 0, "Role-Label", extract_type, <<"Organizer">>),
       content |-> <<LineWith(1, 0, 0, "Person", extract_type, <<"Bob">>),
                     LineWith(2, 0, 0, "Affiliation", extract_type,
                              <<"Acme Corp", ",", "Springfield">>)>>]>>

\* C16: a second process_conference call on the same conference leaves the
\* relational tables as the first call left them; for the example conference
\* they hold Person(Bob), PersonRole(Bob, Organizer), Organization(Acme Corp
\* with location Springfield) and PersonOrganization(Bob, Acme Corp) and
\* nothing else
C16_SecondRunAddsNothing ==
    /\ (cpc = "done" /\ runs = 1) => RelationalTables = first_run
    /\ (cpc = "done" /\ blocks = <<ExampleConference>>) =>
          /\ Persons = << <<"Bob">> >>
          /\ PersonRole = {<< <<"Organizer">>, conference.id, 1>>}
          /\ Organizations =
                <<[name |-> <<"Acme Corp">>, location |-> <<"Springfield">>]>>
          /\ PersonOrganization = {<<1, 1>>}

C16_Witness ==
    /\ cpc = "done"
    /\ runs = 1
    /\ blocks = <<ExampleConference>>
    /\ first_run = RelationalTables
    /\ Len(Persons) = 1

(***************************************************************************)
(* Repeated Person or Affiliation lines                                    *)
(***************************************************************************)
PersonsAdded(calls) ==
    {calls[i][2] : i \in {j \in 1..Len(calls) : calls[j][1] = "add_person"}}

C20_Step ==
    LineStep =>
        /\ (LabelOf(cur_line') = "Person" /\ u_aff = None) =>
              /\ u_person' = cur_line' /\ u_aff' = None
              /\ emitted' = <<>> /\ UNCHANGED store
        /\ (LabelOf(cur_line') = "Affiliation" /\ u_person = None) =>
              /\ u_aff' = cur_line' /\ u_person' = None
              /\ emitted' = <<>> /\ UNCHANGED store
        /\ (LabelOf(cur_line') = "Affiliation" /\ u_person # None) =>
              /\ PersonsAdded(emitted') = {u_person.text}
              /\ parsed' = cur_line'
              /\ u_person' = None /\ u_aff' = None
        /\ (LabelOf(cur_line') = "Person" /\ u_aff # None) =>
              /\ PersonsAdded(emitted') = {cur_line'.text}
              /\ parsed' = u_aff
              /\ u_person' = None /\ u_aff' = None
        /\ (LabelOf(cur_line') \notin {"Complex", "Person", "Affiliation"}) =>
              /\ UNCHANGED <<u_person, u_aff, store>>
              /\ emitted' = <<>>

\* C20: a Person line met while no Affiliation is pending becomes the pending
\* Person, replacing the one that was pending, and writes nothing; an
\* Affiliation line is then paired with the pending Person alone; the same
\* with the two labels exchanged; a line with another label changes neither
\* pending line and writes nothing
C20_LastPendingWins == [][C20_Step]_vars

\* Alice, Bob, MIT: the pair written is Bob's and Alice is in no table
C20_Witness ==
    /\ blocks # <<>>
    /\ runs = 0
    /\ cpc = "block"
    /\ cur_idx = 3
    /\ LET c == blocks[1][1].content
       IN /\ Len(c) = 3
          /\ LabelOf(c[1]) = "Person" /\ c[1].text = <<"Alice">>
          /\ LabelOf(c[2]) = "Person" /\ c[2].text = <<"Bob">>
          /\ LabelOf(c[3]) = "Affiliation" /\ c[3].text = <<"MIT">>
    /\ Persons = << <<"Bob">> >>
    /\ PersonsAdded(emitted) = {<<"Bob">>}
    /\ u_person = None

(***************************************************************************)
(* The pairing loop as a three-state machine                               *)
(***************************************************************************)
\* the machine IDLE / HAVE_PERSON / HAVE_AFFILIATION run on labels[i..] from
\* state st with n pairings made: its state and pairings at the end
RECURSIVE Machine(_, _, _, _)
Machine(labels, i, st, n) ==
    IF i > Len(labels) THEN [state |-> st, pairings |-> n]
    ELSE IF labels[i] = "Person"
    THEN (IF st = "HAVE_AFFILIATION" THEN Machine(labels, i + 1, "IDLE", n + 1)
          ELSE Machine(labels, i + 1, "HAVE_PERSON", n))
    ELSE IF labels[i] = "Affiliation"
    THEN (IF st = "HAVE_PERSON" THEN Machine(labels, i + 1, "IDLE", n + 1)
          ELSE Machine(labels, i + 1, "HAVE_AFFILIATION", n))
    ELSE Machine(labels, i + 1, st, n)

\* the machine state the locals of process_block stand for
PairState ==
    IF u_person # None /\ u_aff # None THEN "BOTH"
    ELSE IF u_person # None THEN "HAVE_PERSON"
    ELSE IF u_aff # None THEN "HAVE_AFFILIATION"
    ELSE "IDLE"

\* the labels of the content lines of the current block processed so far
ProcessedLabels ==
    [i \in 1..cur_idx |-> LabelOf(blocks[1][blocks_started].content[i])]

CountOf(labels, lab) == Cardinality({i \in DOMAIN labels : labels[i] = lab})

\* C21: after every prefix of a block's content the locals of process_block
\* stand for the state the three-state machine has reached on that prefix,
\* never for a pending person together with a pending affiliation; the loop
\* has made the pairings the machine has made, at most as many as the prefix
\* has Person lines and as it has Affiliation lines
C21_RefinesThreeStateMachine ==
    (blocks # <<>> /\ cpc = "block") =>
        LET m == Machine(ProcessedLabels, 1, "IDLE", 0)
        IN /\ ~(u_person # None /\ u_aff # None)
           /\ PairState = m.state
           /\ pairings = m.pairings
           /\ pairings <= Min({CountOf(ProcessedLabels, "Person"),
                                CountOf(ProcessedLabels, "Affiliation")})
           /\ u_person # None =>
                 \E i \in 1..cur_idx :
                     u_person = blocks[1][blocks_started].content[i]
                     /\ ProcessedLabels[i] = "Person"
           /\ u_aff # None =>
                 \E i \in 1..cur_idx :
                     u_aff = blocks[1][blocks_started].content[i]
                     /\ ProcessedLabels[i] = "Affiliation"

\* Person, Affiliation, Person: one pairing made, the third line pending
C21_Witness ==
    /\ blocks # <<>>
    /\ cpc = "block"
    /\ cur_idx = 3
    /\ ProcessedLabels = <<"Person", "Affiliation", "Person">>
    /\ pairings = 1
    /\ PairState = "HAVE_PERSON"
    /\ u_person = blocks[1][blocks_started].content[3]

(***************************************************************************)
(* Failure handling of process_conference                                  *)
(***************************************************************************)
Exited == cpc \in {"done", "raised"}

\* C11: whenever process_conference has returned or raised, the graph
\* session it opened is no longer open
C11_SessionClosedOnExit == Exited => session # "open"

\* C12: a relational write that fails aborts only its fact: the failure
\* never ends process_conference, which goes on to the remaining lines and
\* blocks
C12_RelationalFailureIsLocal == ~(cpc = "raised" /\ error = "sql")

\* C13: a graph write of a block's writer call that fails after its
\* relational write is not fatal: the failure never ends process_conference
C13_GraphFailureNonFatal ==
    ~(cpc = "raised" /\ error = "graph" /\ conference # None)

\* C14: when the graph session cannot be opened, process_conference goes on
\* without it: the failure never ends process_conference
C14_SessionFailureDegrades == ~(cpc = "raised" /\ error = "session")

(***************************************************************************)
(* Relational-only mode                                                    *)
(***************************************************************************)
\* C15: without a graph driver every add_person and add_organization call
\* returns -1 as graph id together with the relational id of its record, and
\* no step of process_conference runs a graph transaction or has a session
C15_NoDriverNoGraph ==
    ~driver =>
        /\ session = "None"
        /\ tx_calls = <<>>
        /\ g_nodes = <<>> /\ g_rels = {}
        /\ \A i \in 1..Len(emitted) :
              /\ emitted[i][1] = "add_person" =>
                    /\ ReturnedIds(emitted[i])[1] = -1
                    /\ ReturnedIds(emitted[i])[2] \in 1..Len(Persons)
                    /\ Persons[ReturnedIds(emitted[i])[2]] = emitted[i][2]
              /\ emitted[i][1] = "add_organization" =>
                    /\ ReturnedIds(emitted[i])[1] = -1
                    /\ ReturnedIds(emitted[i])[2] \in 1..Len(Organizations)
                    /\ Organizations[ReturnedIds(emitted[i])[2]].name = emitted[i][2]

C15_Witness ==
    /\ ~driver
    /\ cpc = "block"
    /\ CallsOf("add_person", emitted) # <<>>
    /\ CallsOf("add_organization", emitted) # <<>>
    /\ Len(Persons) > 1

(***************************************************************************)
(* API.similarity (name_disambiguation/external_api.py).  A string is the  *)
(* sequence of its characters.                                             *)
(***************************************************************************)
MaxNameLen == 4

Letters == {"a", "B", " "}

\* str.lower() on the characters of the vocabulary
lower_char(c) ==
    CASE c = "A" -> "a" [] c = "B" -> "b" [] c = "J" -> "j"
      [] c = "S" -> "s" [] c = "W" -> "w" [] OTHER -> c

lower(str) == [i \in 1..Len(str) |-> lower_char(str[i])]

\* str.split(" "): the pieces between single spaces, empty ones included
RECURSIVE split(_)
split(str) ==
    IF \E i \in 1..Len(str) : str[i] = " "
    THEN LET i == CHOOSE i \in 1..Len(str) :
                    str[i] = " " /\ \A j \in 1..(i - 1) : str[j] # " "
         IN <<SubSeq(str, 1, i - 1)>> \o split(SubSeq(str, i + 1, Len(str)))
    ELSE <<str>>

\* " ".join(tokens)
RECURSIVE join(_)
join(tokens) ==
    IF Len(tokens) = 0 THEN <<>>
    ELSE IF Len(tokens) = 1 THEN tokens[1]
    ELSE tokens[1] \o <<" ">> \o join(Tail(tokens))

Min3(a, b, c) == Min({a, b, c})

\* editdistance.eval: the Levenshtein distance, one row of the table after
\* the other; row[j + 1] is the distance to the first j characters of t
RECURSIVE extend_row(_, _, _, _)
extend_row(row, prev, c, t) ==
    IF Len(row) = Len(t) + 1 THEN row
    ELSE LET j == Len(row)
         IN extend_row(Append(row, Min3(prev[j + 1] + 1, row[j] + 1,
                                        prev[j] + (IF c = t[j] THEN 0 ELSE 1))),
                       prev, c, t)

RECURSIVE last_row(_, _, _, _)
last_row(prev, str, i, t) ==
    IF i > Len(str) THEN prev
    ELSE last_row(extend_row(<<prev[1] + 1>>, prev, str[i], t), str, i + 1, t)

editdistance_eval(str, t) ==
    last_row([j \in 1..(Len(t) + 1) |-> j - 1], str, 1, t)[Len(t) + 1]

\* variant: only the first-token-to-end permutation is tried
similarity_one_permutation(n1, n2) ==
    LET n1_tokens == split(n1)
        permute1 == join(Tail(n1_tokens) \o <<Head(n1_tokens)>>)
    IN Min({editdistance_eval(lower(n1), lower(n2)),
            editdistance_eval(lower(permute1), lower(n2))})

\* lines 131-145
similarity(n1, n2) ==
    LET n1_tokens == split(n1)
        last == Len(n1_tokens)
        permute1 == join(Tail(n1_tokens) \o <<Head(n1_tokens)>>)
        permute2 == join(<<n1_tokens[last]>> \o SubSeq(n1_tokens, 1, last - 1))
    IN Min3(editdistance_eval(lower(n1), lower(n2)),
            editdistance_eval(lower(permute1), lower(n2)),
            editdistance_eval(lower(permute2), lower(n2)))

JohnSmith == <<"J", "o", "h", "n", " ", "S", "m", "i", "t", "h">>
SmithJohn == <<"S", "m", "i", "t", "h", " ", "J", "o", "h", "n">>
AliceWong == <<"A", "l", "i", "c", "e", " ", "W", "o", "n", "g">>
ThreeTokens == <<"a", " ", "B", " ", "c">>
LastFirst == <<"c", " ", "a", " ", "b">>

Names ==
    SeqsUpTo(Letters, MaxNameLen)
    \cup {JohnSmith, SmithJohn, AliceWong, ThreeTokens, LastFirst}

SimInit ==
    /\ name1 \in Names
    /\ name2 \in Names
    /\ similarity_result = <<>>
    /\ driver = FALSE
    /\ ConfConstructed
    /\ SingleRun
    /\ extract_type = "gold"
    /\ indent_diff_thresh = 0
    /\ lnum_diff_thresh = 0
    /\ scanned = <<>>
    /\ role_label = None
    /\ prev_labelled = None
    /\ mapping = <<>>
    /\ bpc = "idle"
    /\ page_ids = <<>>
    /\ PageLines = <<>>
    /\ page_idx = 0
    /\ all_lines = <<>>
    /\ lpc = "idle"

\* one call of similarity(name1, name2)
Similarity ==
    /\ similarity_result = <<>>
    /\ similarity_result' = <<similarity(name1, name2)>>
    /\ UNCHANGED <<name1, name2, bvars, cvars, fvars, rvars, lvars>>

SpecSim == SimInit /\ [][Similarity]_vars

\* position of the first and of the last space of a string (0: none)
FirstSpace(str) ==
    IF \E i \in 1..Len(str) : str[i] = " "
    THEN CHOOSE i \in 1..Len(str) :
            str[i] = " " /\ \A j \in 1..(i - 1) : str[j] # " "
    ELSE 0

LastSpace(str) ==
    IF \E i \in 1..Len(str) : str[i] = " "
    THEN CHOOSE i \in 1..Len(str) :
            str[i] = " " /\ \A j \in (i + 1)..Len(str) : str[j] # " "
    ELSE 0

\* the string with its first token moved to the end, and with its last
\* token moved to the front
FirstToEnd(str) ==
    IF FirstSpace(str) = 0 THEN str
    ELSE SubSeq(str, FirstSpace(str) + 1, Len(str)) \o <<" ">>
         \o SubSeq(str, 1, FirstSpace(str) - 1)

LastToFront(str) ==
    IF LastSpace(str) = 0 THEN str
    ELSE SubSeq(str, LastSpace(str) + 1, Len(str)) \o <<" ">>
         \o SubSeq(str, 1, LastSpace(str) - 1)

\* C17: the value returned is the least of the edit distances from the
\* lower-cased name1, first-token-to-end permutation and last-token-to-front
\* permutation to the lower-cased name2; it is 0 when name2 is name1 or one of
\* the two permutations up to letter case, and in no other case
C17_MinOfThreeDistances ==
    similarity_result # <<>> =>
        LET d == similarity_result[1]
            forms == {lower(name1), lower(FirstToEnd(name1)),
                      lower(LastToFront(name1))}
        IN /\ d = Min3(editdistance_eval(lower(name1), lower(name2)),
                       editdistance_eval(lower(FirstToEnd(name1)), lower(name2)),
                       editdistance_eval(lower(LastToFront(name1)), lower(name2)))
           /\ (d = 0) <=> (lower(name2) \in forms)
           /\ \A f \in forms :
                 d <= Max({Len(f), Len(name2)})
           /\ (name1 = JohnSmith /\ name2 = SmithJohn) => d = 0
           /\ (name1 = AliceWong /\ name2 = AliceWong) => d = 0

C17_Witness ==
    /\ name1 = JohnSmith
    /\ name2 = SmithJohn
    /\ similarity_result = <<0>>

(***************************************************************************)
(* BlockExtractor.get_relevant_lines                                       *)
(***************************************************************************)
MaxRows == 2

ExtractTypes == {"gold", "dl_prediction", "svm_prediction"}

\* the rows of PageLines: lines of page 1 or 2, with or without text, every
\* label column "Undefined" or not on its own
RowLabels == {"Undefined", "Person"}

Rows ==
    {[page_id |-> p, line |-> Line(0, 0, 0, lab, svm, dl, text)] :
        p \in {1, 2}, lab \in RowLabels, svm \in RowLabels, dl \in RowLabels,
        text \in {NoText, <<"t">>}}

\* the row ids are the positions in the table
WithIds(rows) ==
    [i \in 1..Len(rows) |-> [rows[i] EXCEPT !.line.id = i]]

\* SELECT * FROM PageLines WHERE page_id=? AND line_text!='' AND <column>!=
\* 'Undefined' ORDER BY id, each row wrapped in a Line (line 40)
RECURSIVE SelectLines(_, _, _, _)
SelectLines(rows, i, page_id, column) ==
    IF i > Len(rows) THEN <<>>
    ELSE (IF /\ rows[i].page_id = page_id
             /\ rows[i].line.text # NoText
             /\ ActiveLabel(rows[i].line, column) # "Undefined"
          THEN <<rows[i].line>> ELSE <<>>)
         \o SelectLines(rows, i + 1, page_id, column)

\* lines 21-24: the pages of the conference, all_lines = []
LinesInit ==
    /\ extract_type \in ExtractTypes \cup {"dl_predicted"}
    /\ page_ids \in {<<>>, <<1, 2>>, <<2, 1>>}
    /\ \E rows \in SeqsUpTo(Rows, MaxRows) : PageLines = WithIds(rows)
    /\ page_idx = 0
    /\ all_lines = <<>>
    /\ lpc = "loop"
    /\ name1 = <<>>
    /\ name2 = <<>>
    /\ similarity_result = <<>>
    /\ driver = FALSE
    /\ ConfConstructed
    /\ SingleRun
    /\ indent_diff_thresh = 0
    /\ lnum_diff_thresh = 0
    /\ scanned = <<>>
    /\ role_label = None
    /\ prev_labelled = None
    /\ mapping = <<>>
    /\ bpc = "idle"

LinesFrame ==
    UNCHANGED <<page_ids, PageLines, bvars, cvars, fvars, rvars, svars>>

\* lines 25-40 for a page when the chain of line 30 takes its first or its
\* second branch
PageSelected ==
    /\ lpc = "loop"
    /\ page_idx < Len(page_ids)
    /\ extract_type \in {"dl_prediction", "gold"}
    /\ all_lines' = all_lines \o SelectLines(PageLines, 1, page_ids[page_idx + 1],
                                             extract_type)
    /\ page_idx' = page_idx + 1
    /\ UNCHANGED lpc
    /\ LinesFrame

\* lines 25-39 for a page when the chain of line 30 takes its else branch,
\* which it does for every extract_type other than 'dl_prediction' and
\* 'gold', after the query of line 27 for 'svm_prediction': return []
PageReturnsEmpty ==
    /\ lpc = "loop"
    /\ page_idx < Len(page_ids)
    /\ extract_type \notin {"dl_prediction", "gold"}
    /\ all_lines' = <<>>
    /\ lpc' = "returned"
    /\ UNCHANGED page_idx
    /\ LinesFrame

\* line 41: return all_lines
ReturnAllLines ==
    /\ lpc = "loop"
    /\ page_idx = Len(page_ids)
    /\ lpc' = "returned"
    /\ UNCHANGED <<page_idx, all_lines>>
    /\ LinesFrame

LinesNext ==
    \/ PageSelected
    \/ PageReturnsEmpty
    \/ ReturnAllLines

SpecLines == LinesInit /\ [][LinesNext]_vars

\* the rows of page page_id that have text and a label in the mode
RelevantOnPage(page_id, mode) ==
    SelectSeq(PageLines,
              LAMBDA row : /\ row.page_id = page_id
                           /\ row.line.text # NoText
                           /\ ActiveLabel(row.line, mode) # "Undefined")

RECURSIVE RelevantOnPages(_, _)
RelevantOnPages(pages, mode) ==
    IF pages = <<>> THEN <<>>
    ELSE LET rows == RelevantOnPage(Head(pages), mode)
         IN [i \in 1..Len(rows) |-> rows[i].line]
            \o RelevantOnPages(Tail(pages), mode)

\* C18: in each of the three modes the list returned holds, page after page,
\* the lines with text whose label in that mode is not "Undefined"; in any
\* other mode it is empty
C18_RelevantLinesInEveryMode ==
    lpc = "returned" =>
        all_lines = IF extract_type \in ExtractTypes
                    THEN RelevantOnPages(page_ids, extract_type)
                    ELSE <<>>

====
